---- MODULE Spec2Model ----
(***************************************************************************)
(* Pokedex backend: PokemonService (create / findOne / update / remove)    *)
(* and SeedService (excuteSeed / excuteSeedWithAdapter) over one document  *)
(* collection with unique indexes on `no` and `name`.                      *)
(*                                                                         *)
(* Strings are sequences of one-character strings, so that toLowerCase,    *)
(* trim, split and the unary plus are computed, not assumed.               *)
(***************************************************************************)
EXTENDS Integers, Sequences, FiniteSets, TLC

\* ---------------------------------------------------------------- bounds
MaxNo == 2           \* `no` values a create / update DTO may carry: 1..MaxNo
MaxBatch == 3        \* entries in one answer of the external source
MaxTermLen == 2      \* length of the short terms the resolver is probed with
MaxDigits == 4       \* digit strings longer than this denote a number above every stored `no`

\* ------------------------------------------------------------- constants
ObjectIdLen == 24
DuplicateKeyCode == 11000
BadRequestStatus == 400
InternalErrorStatus == 500
OtherWriteErrorCode == 121
NaN == 0 - 1
BigNumber == 0 - 2

\* --------------------------------------------------------------- strings
Digits == {"0", "1", "2", "3", "4", "5", "6", "7", "8", "9"}

DigitVal(c) ==
  CASE c = "0" -> 0 [] c = "1" -> 1 [] c = "2" -> 2 [] c = "3" -> 3 [] c = "4" -> 4
    [] c = "5" -> 5 [] c = "6" -> 6 [] c = "7" -> 7 [] c = "8" -> 8 [] c = "9" -> 9

DigitChar(k) ==
  CASE k = 0 -> "0" [] k = 1 -> "1" [] k = 2 -> "2" [] k = 3 -> "3" [] k = 4 -> "4"
    [] k = 5 -> "5" [] k = 6 -> "6" [] k = 7 -> "7" [] k = 8 -> "8" [] k = 9 -> "9"

LowerChar(c) ==
  CASE c = "A" -> "a" [] c = "B" -> "b" [] c = "G" -> "g" [] OTHER -> c

UpperChar(c) ==
  CASE c = "a" -> "A" [] c = "b" -> "B" [] c = "g" -> "G" [] OTHER -> c

toLowerCase(s) == [i \in 1..Len(s) |-> LowerChar(s[i])]

toUpperCase(s) == [i \in 1..Len(s) |-> UpperChar(s[i])]

RECURSIVE TrimStart(_)
TrimStart(s) == IF s # <<>> /\ Head(s) = " " THEN TrimStart(Tail(s)) ELSE s

RECURSIVE TrimEnd(_)
TrimEnd(s) ==
  IF s # <<>> /\ s[Len(s)] = " " THEN TrimEnd(SubSeq(s, 1, Len(s) - 1)) ELSE s

trim(s) == TrimEnd(TrimStart(s))

RECURSIVE DecimalValue(_)
DecimalValue(s) ==
  IF s = <<>> THEN 0
  ELSE 10 * DecimalValue(SubSeq(s, 1, Len(s) - 1)) + DigitVal(s[Len(s)])

\* The unary plus of JavaScript on the strings of this model (letters, digits,
\* blanks, "/"): blanks are stripped, the empty string is 0, a digit string is
\* its decimal value, anything else is NaN.
ToNumber(s) ==
  LET t == trim(s) IN
    IF t = <<>> THEN 0
    ELSE IF \A i \in 1..Len(t) : t[i] \in Digits
      THEN (IF Len(t) > MaxDigits THEN BigNumber ELSE DecimalValue(t))
      ELSE NaN

RECURSIVE NumToStr(_)
NumToStr(n) ==
  IF n < 10 THEN <<DigitChar(n)>> ELSE NumToStr(n \div 10) \o <<DigitChar(n % 10)>>

\* String.prototype.split with a one-character separator.
RECURSIVE split(_, _)
split(s, sep) ==
  IF \A i \in 1..Len(s) : s[i] # sep THEN <<s>>
  ELSE LET k == CHOOSE i \in 1..Len(s) : s[i] = sep /\ \A j \in 1..(i - 1) : s[j] # sep
       IN <<SubSeq(s, 1, k - 1)>> \o split(SubSeq(s, k + 1, Len(s)), sep)

\* ------------------------------------------------------------ identities
HexChars == Digits \cup {"a", "b", "c", "d", "e", "f"}

isValidObjectId(s) ==
  Len(s) = ObjectIdLen /\ \A i \in 1..Len(s) : LowerChar(s[i]) \in HexChars

\* The store compares identities as bytes: the hex string is case-insensitive.
castObjectId(s) == toLowerCase(s)

\* The k-th identity the store assigns. The first one is made of digits only,
\* so it is also a numeric term; the others contain a hex letter.
ObjectIdOf(k) ==
  [i \in 1..ObjectIdLen |->
     IF i = ObjectIdLen THEN DigitChar(k % 10)
     ELSE IF i = ObjectIdLen - 1 THEN DigitChar(k \div 10)
     ELSE IF k = 1 THEN "1" ELSE "a"]

\* ---------------------------------------------------------------- errors
NoFn == ""

MkError(cls, status, code, msg, field, value) ==
  [cls |-> cls, status |-> status, code |-> code, msg |-> msg,
   field |-> field, value |-> value, writeErrors |-> <<>>]

NoError == MkError("", 0, 0, <<>>, "", <<>>)

\* A failure of the store itself (connection lost, timeout, ...).
StoreFailure == MkError("MongoNetworkError", 0, 0, <<"store failure">>, "", <<>>)

\* Mongoose refuses to cast a malformed identity.
CastError == MkError("CastError", 0, 0, <<"Cast to ObjectId failed">>, "", <<>>)

DuplicateKeyError(field, value) ==
  MkError("MongoServerError", 0, DuplicateKeyCode, <<"E11000 duplicate key">>, field, value)

BadRequestException(msg, value) ==
  MkError("BadRequestException", BadRequestStatus, 0, msg, "", value)

InternalServerErrorException(msg) ==
  MkError("InternalServerErrorException", InternalErrorStatus, 0, msg, "", <<>>)

\* The classifier without its pass-through of client errors.
_errorHandler_NoPassThrough(error, fnName) ==
  IF error.code = DuplicateKeyCode
    THEN [BadRequestException(<<"already exists">>, error.value) EXCEPT !.field = error.field]
  ELSE InternalServerErrorException(<<"Error from", fnName>> \o error.msg)

\* The classifier with its first two rules swapped.
_errorHandler_StatusFirst(error, fnName) ==
  IF error.status = BadRequestStatus
    THEN BadRequestException(<<"Error from", fnName>> \o error.msg, error.value)
  ELSE IF error.code = DuplicateKeyCode
    THEN [BadRequestException(<<"already exists">>, error.value) EXCEPT !.field = error.field]
  ELSE InternalServerErrorException(<<"Error from", fnName>> \o error.msg)

\* The classifier without its duplicate-key rule.
_errorHandler_NoConflict(error, fnName) ==
  IF error.status = BadRequestStatus
    THEN BadRequestException(<<"Error from", fnName>> \o error.msg, error.value)
  ELSE InternalServerErrorException(<<"Error from", fnName>> \o error.msg)

\* PokemonService._errorHandler: what it throws for a caught error.
_errorHandler(error, fnName) ==
  IF error.code = DuplicateKeyCode
    THEN [BadRequestException(<<"already exists">>, error.value) EXCEPT !.field = error.field]
  ELSE IF error.status = BadRequestStatus
    THEN BadRequestException(<<"Error from", fnName>> \o error.msg, error.value)
  ELSE InternalServerErrorException(<<"Error from", fnName>> \o error.msg)

\* ----------------------------------------------------------------- store
\* A stored document. Null stands for JavaScript's null / undefined.
Null == [id |-> <<>>, no |-> 0, name |-> <<>>]

Pick(S) == IF S = {} THEN Null ELSE CHOOSE r \in S : TRUE

\* Model.findOne({ no: term }): Mongoose casts the term to a Number; the empty
\* string is cast to null, which no stored document has.
storeFindOneByNo(coll, term) ==
  IF term = <<>> THEN Null ELSE Pick({r \in coll : r.no = ToNumber(term)})

\* Model.findById(term)
storeFindById(coll, term) == Pick({r \in coll : r.id = castObjectId(term)})

\* Model.findOne({ name })
storeFindOneByName(coll, name) == Pick({r \in coll : r.name = name})

\* A collection without unique indexes.
UniqueViolations_None(coll, doc, self) == {}

\* The unique indexes of the collection: the fields of doc that some stored
\* document other than `self` already holds.
UniqueViolations(coll, doc, self) ==
  {f \in {"no", "name"} :
     \E r \in coll : r.id # self /\ (IF f = "no" THEN r.no = doc.no ELSE r.name = doc.name)}

KeyValue(doc, f) == IF f = "no" THEN NumToStr(doc.no) ELSE doc.name

\* ------------------------------------------------------- PokemonService
Query(kind, arg) == [kind |-> kind, arg |-> arg]

\* The numeric test inverted: isNaN(+term).
numericTerm_Inverted(term) == ToNumber(term) = NaN

\* if (!isNaN(+term))
numericTerm(term) == ToNumber(term) # NaN

\* The identity lookup without the validity check: if (!pokemon).
identityQuery_Unchecked(pokemon, term) == pokemon = Null

\* if (!pokemon && isValidObjectId(term))
identityQuery(pokemon, term) == pokemon = Null /\ isValidObjectId(term)

\* term.toLowerCase().trim()
normalizedName(term) == trim(toLowerCase(term))

\* PokemonService.findOne. `fail` names the store query that throws, if it is
\* issued ("none": the store answers every query).
findOne(coll, term, fail) ==
  LET byNo     == numericTerm(term)
      failNo   == byNo /\ fail = "no"
      p1       == IF byNo /\ ~failNo THEN storeFindOneByNo(coll, term) ELSE Null
      byId     == ~failNo /\ identityQuery(p1, term)
      failId   == byId /\ fail = "id"
      p2       == IF byId /\ ~failId THEN storeFindById(coll, term) ELSE p1
      byName   == ~failNo /\ ~failId /\ p2 = Null
      failName == byName /\ fail = "name"
      p3       == IF byName /\ ~failName
                    THEN storeFindOneByName(coll, normalizedName(term)) ELSE p2
      failed   == failNo \/ failId \/ failName
      queries  == (IF byNo THEN <<Query("no", term)>> ELSE <<>>)
                  \o (IF byId THEN <<Query("id", term)>> ELSE <<>>)
                  \o (IF byName THEN <<Query("name", normalizedName(term))>> ELSE <<>>)
  IN [ok      |-> ~failed /\ p3 # Null,
      rec     |-> IF failed THEN Null ELSE p3,
      err     |-> IF failed THEN _errorHandler(StoreFailure, "findOne")
                  ELSE IF p3 = Null
                    THEN _errorHandler(BadRequestException(<<"not found">>, term), "findOne")
                  ELSE NoError,
      queries |-> queries,
      injected |-> failed]

\* A clear that removes nothing.
deleteMany_Keep(coll) == coll

\* Model.deleteMany({})
deleteMany(coll) == {}

\* The unordered bulk insert of the store. Every document is attempted, in the
\* order `order` (the store is free to reorder an unordered batch); the
\* document at index `bad` (0: none) is refused for a reason other than a
\* duplicate key. Identities are generated on the client, in batch order.
\* The answer lists the write errors by batch index.
FreeIds(coll) ==
  {k \in 1..(2 * MaxBatch + MaxNo) : \A r \in coll : r.id # ObjectIdOf(k)}

RECURSIVE NthFree(_, _)
NthFree(S, n) ==
  LET m == CHOOSE k \in S : \A j \in S : k <= j
  IN IF n = 1 THEN m ELSE NthFree(S \ {m}, n - 1)

WriteError(index, code) == [index |-> index, code |-> code]

RECURSIVE insertManyFrom(_, _, _, _, _, _, _)
insertManyFrom(coll, free, batch, order, bad, k, errs) ==
  IF k > Len(order) THEN [coll |-> coll, errs |-> errs]
  ELSE LET idx == order[k]
           doc == [id |-> ObjectIdOf(NthFree(free, idx)),
                   no |-> batch[idx].no, name |-> batch[idx].name]
       IN IF idx = bad
            THEN insertManyFrom(coll, free, batch, order, bad, k + 1,
                                errs \cup {WriteError(idx, OtherWriteErrorCode)})
          ELSE IF UniqueViolations(coll, doc, doc.id) # {}
            THEN insertManyFrom(coll, free, batch, order, bad, k + 1,
                                errs \cup {WriteError(idx, DuplicateKeyCode)})
          ELSE insertManyFrom(coll \cup {doc}, free, batch, order, bad, k + 1, errs)

RECURSIVE SortByIndex(_)
SortByIndex(errs) ==
  IF errs = {} THEN <<>>
  ELSE LET e == CHOOSE x \in errs : \A y \in errs : x.index <= y.index
       IN <<e>> \o SortByIndex(errs \ {e})

insertMany(coll, batch, order, bad) ==
  LET r == insertManyFrom(coll, FreeIds(coll), batch, order, bad, 1, {})
  IN [coll |-> r.coll, writeErrors |-> SortByIndex(r.errs)]

\* The error the driver raises for a bulk insert with write errors: its code
\* is the code of the first write error.
MongoBulkWriteError(writeErrors) ==
  [MkError("MongoBulkWriteError", 0, writeErrors[1].code, <<"bulk write failed">>, "", <<>>)
     EXCEPT !.writeErrors = writeErrors]

\* ---------------------------------------------------------------- inputs
Str(n, chars) == UNION {[1..k -> chars] : k \in 0..n}

TermChars == {"a", "A", "1", "2", " "}

\* An identity-shaped term with a character that is not a hex digit, and one
\* that is one character short.
MalformedIds ==
  {[i \in 1..ObjectIdLen |-> IF i = 1 THEN "g" ELSE "a"],
   [i \in 1..(ObjectIdLen - 1) |-> "a"]}

IdTerms == {ObjectIdOf(1), ObjectIdOf(2), toUpperCase(ObjectIdOf(2))} \cup MalformedIds

\* The terms findOne is called with.
Terms ==
  {<<>>, <<"1">>, <<"2">>, <<"1", "2">>, <<" ", "1">>, <<"a">>, <<"A">>, <<"a", " ">>,
   <<"b">>, <<"A", "b">>} \cup IdTerms

\* The terms the resolver is probed with in the properties that quantify over terms.
ProbeTerms == Str(MaxTermLen, TermChars) \cup Terms

\* Names a create / update DTO may carry (validated: non-empty strings).
NameInputs == {<<"a">>, <<"A">>, <<"1">>, <<"A", "b">>, <<"a", " ">>}

NoDto == [no |-> 0, name |-> <<>>]

CreateDtos == [no : 1..MaxNo, name : NameInputs]

\* A partial update: no = 0 / name = <<>> stand for an absent property.
UpdateDtos == [no : 0..MaxNo, name : {<<>>, <<"A">>, <<"1">>}]

UpdateTerms == {<<"1">>, <<"A">>, <<"b">>, ObjectIdOf(2)}

Variants == {"excuteSeed", "excuteSeedWithAdapter"}

Invocations == {1, 2}

\* What the external source may list: a name and a reference URL whose
\* second-to-last path segment is the number.
Url1 == <<"p", "/", "1", "/">>
Url2 == <<"p", "/", "2", "/">>
Url12 == <<"a", "/", "p", "/", "1", "2", "/">>

SourceEntries ==
  {[name |-> <<"a">>, url |-> Url1], [name |-> <<"b">>, url |-> Url2],
   [name |-> <<"a">>, url |-> Url2], [name |-> <<"A">>, url |-> Url12]}

SourceAnswers == UNION {[1..k -> SourceEntries] : k \in 0..MaxBatch}

\* The answers of the source while seed invocations overlap: a collision-free
\* list, a list with a name collision, and a list with a repeated entry.
RaceAnswers ==
  {<<[name |-> <<"a">>, url |-> Url1], [name |-> <<"b">>, url |-> Url2]>>,
   <<[name |-> <<"a">>, url |-> Url1], [name |-> <<"a">>, url |-> Url2]>>,
   <<[name |-> <<"a">>, url |-> Url1], [name |-> <<"a">>, url |-> Url1],
     [name |-> <<"b">>, url |-> Url2]>>}

\* The errors a catch block of PokemonService may hand to _errorHandler, and
\* the contexts it names.
RawErrors ==
  {MkError(cls, status, code, msg, fv[1], fv[2]) :
     cls \in {"MongoServerError", "BadRequestException", "Error"},
     status \in {0, BadRequestStatus, InternalErrorStatus},
     code \in {0, DuplicateKeyCode, OtherWriteErrorCode},
     msg \in {<<"not found">>, <<"store failure">>},
     fv \in {<<"", <<>>>>, <<"no", <<"1">>>>}}

FnNames == {"create", "findOne", "update", "remove"}

Orders(n) == {f \in [1..n -> 1..n] : \A a, b \in 1..n : f[a] = f[b] => a = b}

\* ----------------------------------------------------------- SeedService
\* excuteSeed: results.map(({ name, url }) => ...)
pokemonData(results) ==
  [k \in 1..Len(results) |->
     LET urlParts == split(results[k].url, "/")
     IN [no |-> ToNumber(urlParts[Len(urlParts) - 1]), name |-> results[k].name]]

\* excuteSeedWithAdapter: data.results.forEach(... toInsertPokemon.push({ no, name }))
RECURSIVE toInsertPokemon(_)
toInsertPokemon(results) ==
  IF results = <<>> THEN <<>>
  ELSE LET last_ == results[Len(results)]
           urlParts == split(last_.url, "/")
       IN Append(toInsertPokemon(SubSeq(results, 1, Len(results) - 1)),
                 [no |-> ToNumber(urlParts[Len(urlParts) - 1]), name |-> last_.name])

\* What a failed fetch raises: excuteSeed maps it to a BadRequestException in
\* catchError, HttpAdapter.get wraps it in a plain Error.
FetchError(variant) ==
  IF variant = "excuteSeed"
    THEN BadRequestException(<<"Error in the excuteSeed method">>, <<>>)
    ELSE MkError("Error", 0, 0, <<"Error fetching data">>, "", <<>>)

\* A catch block that swallows every error.
seedCatch_Swallow(error) == NoError

\* A catch block that rethrows every error.
seedCatch_Strict(error) == BadRequestException(<<"Unexpected error:">>, <<>>)

\* The catch block around insertMany, for a caught error: what is thrown
\* (NoError: the method goes on to return its message).
seedCatch(error) ==
  IF error.code = DuplicateKeyCode THEN NoError
  ELSE BadRequestException(<<"Unexpected error:">>, <<>>)

\* excuteSeedWithAdapter logs the documents of the write errors.
duplicateKeys(batch, error) ==
  [k \in 1..Len(error.writeErrors) |-> batch[error.writeErrors[k].index]]

\* ----------------------------------------------------------------- state
VARIABLES
  collection,   \* the stored documents: records [id, no, name]
  seed,         \* per seed invocation: where it is, which method, its batch,
                \* whether another invocation was in flight during it
  last,         \* the operation that completed last and what the caller got
  hist          \* the successful seed calls made back to back on one source answer

vars == <<collection, seed, last, hist>>

IdleSeed ==
  [pc |-> "idle", variant |-> "", results |-> <<>>, batch |-> <<>>, before |-> {},
   stale |-> FALSE, overlap |-> FALSE]

NoLast ==
  [op |-> "", variant |-> "", term |-> <<>>, dto |-> NoDto, ok |-> FALSE, rec |-> Null,
   err |-> NoError, queries |-> <<>>, injected |-> FALSE, batch |-> <<>>,
   caught |-> NoError, dupKeys |-> <<>>, step |-> "", results |-> <<>>, stale |-> FALSE,
   overlap |-> FALSE, fn |-> NoFn]

Quiescent == \A i \in Invocations : seed[i].pc = "idle"

Fields(coll) == {[no |-> r.no, name |-> r.name] : r \in coll}

Init ==
  /\ collection = {}
  /\ seed = [i \in Invocations |-> IdleSeed]
  /\ last = NoLast
  /\ hist = <<>>

\* ------------------------------------------------------------- operations
\* PokemonService.findOne as an operation of its own.
FindOne ==
  /\ Quiescent
  /\ \E term \in Terms, fail \in {"none", "no", "id", "name"} :
       \E r \in {findOne(collection, term, fail)} :
         /\ fail # "none" => r.injected
         /\ last' = [NoLast EXCEPT !.op = "findOne", !.term = term, !.ok = r.ok,
                       !.rec = r.rec, !.err = r.err, !.queries = r.queries,
                       !.injected = r.injected]
  /\ hist' = <<>>
  /\ UNCHANGED <<collection, seed>>

\* PokemonService.create
Create ==
  /\ Quiescent
  /\ \E dto \in CreateDtos :
       LET free == FreeIds(collection)
           doc  == [id   |-> IF free = {} THEN <<>> ELSE ObjectIdOf(NthFree(free, 1)),
                    no   |-> dto.no,
                    name |-> toLowerCase(dto.name)]
           viol == UniqueViolations(collection, doc, doc.id)
           base == [NoLast EXCEPT !.op = "create", !.dto = dto]
       IN \/ /\ last' = [base EXCEPT !.injected = TRUE,
                                     !.err = _errorHandler(StoreFailure, "create")]
             /\ UNCHANGED collection
          \/ /\ \E f \in viol :
                  last' = [base EXCEPT
                    !.err = _errorHandler(DuplicateKeyError(f, KeyValue(doc, f)), "create")]
             /\ UNCHANGED collection
          \/ /\ viol = {} /\ free # {}
             /\ collection' = collection \cup {doc}
             /\ last' = [base EXCEPT !.ok = TRUE, !.rec = doc]
  /\ hist' = <<>>
  /\ UNCHANGED seed

\* PokemonService.update
Update ==
  /\ Quiescent
  /\ \E term \in UpdateTerms, dto \in UpdateDtos, failFind \in BOOLEAN :
     \E found \in {findOne(collection, term, IF failFind THEN "name" ELSE "none")} :
       LET pokemon == found.rec
           lowered == [dto EXCEPT !.name = toLowerCase(dto.name)]
           doc     == [id   |-> pokemon.id,
                       no   |-> IF lowered.no = 0 THEN pokemon.no ELSE lowered.no,
                       name |-> IF lowered.name = <<>> THEN pokemon.name ELSE lowered.name]
           viol    == {g \in UniqueViolations(collection, doc, doc.id) :
                         IF g = "no" THEN lowered.no # 0 ELSE lowered.name # <<>>}
           base    == [NoLast EXCEPT !.op = "update", !.term = term, !.dto = dto,
                         !.queries = found.queries]
       IN /\ failFind => found.injected
          /\ IF ~found.ok
               THEN /\ last' = [base EXCEPT !.injected = found.injected,
                                            !.err = _errorHandler(found.err, "update")]
                    /\ UNCHANGED collection
             ELSE \/ /\ last' = [base EXCEPT !.injected = TRUE,
                                             !.err = _errorHandler(StoreFailure, "update")]
                     /\ UNCHANGED collection
                  \/ /\ \E f \in viol :
                          last' = [base EXCEPT !.err =
                            _errorHandler(DuplicateKeyError(f, KeyValue(doc, f)), "update")]
                     /\ UNCHANGED collection
                  \/ /\ viol = {}
                     /\ collection' = (collection \ {pokemon}) \cup {doc}
                     /\ last' = [base EXCEPT !.ok = TRUE, !.rec = doc]
  /\ hist' = <<>>
  /\ UNCHANGED seed

\* PokemonService.remove
Remove ==
  /\ Quiescent
  /\ \E id \in IdTerms :
       LET hit  == {r \in collection : r.id = castObjectId(id)}
           base == [NoLast EXCEPT !.op = "remove", !.term = id]
       IN IF ~isValidObjectId(id)
            THEN /\ last' = [base EXCEPT !.err = _errorHandler(CastError, "remove")]
                 /\ UNCHANGED collection
          ELSE \/ /\ last' = [base EXCEPT !.injected = TRUE,
                                          !.err = _errorHandler(StoreFailure, "remove")]
                  /\ UNCHANGED collection
               \/ /\ hit = {}
                  /\ last' = [base EXCEPT !.err =
                       _errorHandler(BadRequestException(<<"does not exist">>, id), "remove")]
                  /\ UNCHANGED collection
               \/ /\ hit # {}
                  /\ collection' = collection \ hit
                  /\ last' = [base EXCEPT !.ok = TRUE, !.rec = Pick(hit)]
  /\ hist' = <<>>
  /\ UNCHANGED seed

\* Both seed methods, step 1: await this.pokemonModel.deleteMany({}) -- outside
\* any try block.
SeedClear(i) ==
  /\ Quiescent
  /\ \A j \in Invocations : i <= j
  /\ \E variant \in Variants :
       \/ /\ last' = [NoLast EXCEPT !.op = "seed", !.variant = variant, !.step = "clear",
                                    !.injected = TRUE, !.err = StoreFailure]
          /\ hist' = <<>>
          /\ UNCHANGED <<collection, seed>>
       \/ /\ collection' = deleteMany(collection)
          /\ seed' = [seed EXCEPT ![i] = [IdleSeed EXCEPT !.pc = "cleared",
                                            !.variant = variant,
                                            !.before = Fields(collection)]]
          /\ last' = [NoLast EXCEPT !.op = "seed", !.variant = variant, !.step = "running"]
          /\ UNCHANGED hist

\* Step 2: the fetch and the transformation of its answer.
SeedFetch(i) ==
  /\ seed[i].pc = "cleared"
  /\ \/ /\ last' = [NoLast EXCEPT !.op = "seed", !.variant = seed[i].variant,
                                  !.step = "fetch", !.injected = TRUE,
                                  !.err = FetchError(seed[i].variant)]
        /\ seed' = [seed EXCEPT ![i] = IdleSeed]
        /\ hist' = <<>>
     \/ /\ \E results \in SourceAnswers :
             LET batch == IF seed[i].variant = "excuteSeed"
                            THEN pokemonData(results) ELSE toInsertPokemon(results)
             IN /\ seed' = [seed EXCEPT ![i].pc = "fetched", ![i].results = results,
                               ![i].batch = batch, ![i].before = {},
                               ![i].stale = \E b \in seed[i].before :
                                              \A k \in 1..Len(batch) : batch[k] # b]
                /\ hist' = IF hist # <<>> /\ hist[1].results = results THEN hist ELSE <<>>
        /\ UNCHANGED last
  /\ UNCHANGED collection

\* Step 3: insertMany(batch, { ordered: false }), its catch block and the return.
\* order = <<>> with a non-empty batch: the store fails as a whole, before any write.
SeedInsert(i) ==
  /\ seed[i].pc = "fetched"
  /\ LET batch   == seed[i].batch
         variant == seed[i].variant
         base    == [NoLast EXCEPT !.op = "seed", !.variant = variant, !.step = "insert",
                       !.batch = batch, !.results = seed[i].results,
                       !.stale = seed[i].stale, !.overlap = seed[i].overlap]
     IN \E order \in Orders(Len(batch)) \cup {<<>>}, bad \in 0..Len(batch) :
        \E r \in {insertMany(collection, batch, order, bad)} :
          LET whole  == order = <<>> /\ batch # <<>>
              caught == IF whole THEN StoreFailure
                        ELSE IF r.writeErrors = <<>> THEN NoError
                        ELSE MongoBulkWriteError(r.writeErrors)
              thrown == IF caught = NoError THEN NoError ELSE seedCatch(caught)
              entry  == [results |-> seed[i].results, batch |-> batch,
                         recs |-> Fields(r.coll), clean |-> bad = 0]
          IN /\ whole => bad = 0
             /\ collection' = r.coll
             /\ last' = [base EXCEPT !.injected = (whole \/ bad # 0), !.caught = caught,
                           !.err = thrown, !.ok = (thrown = NoError),
                           !.dupKeys = IF thrown = NoError /\ caught # NoError
                                          /\ variant = "excuteSeedWithAdapter"
                                         THEN duplicateKeys(batch, caught) ELSE <<>>]
             /\ hist' = IF thrown # NoError THEN <<>>
                        ELSE IF hist # <<>> THEN <<entry, hist[1]>>
                        ELSE <<entry>>
  /\ seed' = [seed EXCEPT ![i] = IdleSeed]

\* A catch block of PokemonService: _errorHandler applied to the error it
\* caught, and once more by the catch block of the caller (update calls
\* findOne inside its own try).
Classify ==
  /\ last.op \in {"raw", "classified"}
  /\ \E fnName \in FnNames :
       LET error == IF last.op = "raw" THEN last.caught ELSE last.err
       IN last' = [last EXCEPT !.op = IF last.op = "raw" THEN "classified" ELSE "reclassified",
                               !.fn = fnName, !.caught = error,
                               !.err = _errorHandler(error, fnName)]
  /\ UNCHANGED <<collection, seed, hist>>

\* Overlapping seed invocations. Calling either seed method runs it up to its
\* first await: the deleteMany request is issued, the store executes it later.
\* An invocation is made when none is in flight, or before the first of those
\* in flight has returned.
SeedInvoke(i) ==
  /\ seed[i].pc = "idle"
  /\ Quiescent \/ last.step = "running"
  /\ \E variant \in Variants :
       seed' = [j \in Invocations |->
                 IF j = i
                   THEN [IdleSeed EXCEPT !.pc = "invoked", !.variant = variant,
                           !.overlap = \E k \in Invocations : k # i /\ seed[k].pc # "idle"]
                 ELSE IF seed[j].pc # "idle" THEN [seed[j] EXCEPT !.overlap = TRUE]
                 ELSE seed[j]]
  /\ last' = [NoLast EXCEPT !.op = "seed", !.step = "running"]
  /\ hist' = <<>>
  /\ UNCHANGED collection

\* Step 1 of an invocation that may overlap another: the store executes its
\* deleteMany({}), or the request fails and the raw error is thrown.
SeedClearRacing(i) ==
  /\ seed[i].pc = "invoked"
  /\ \/ /\ last' = [NoLast EXCEPT !.op = "seed", !.variant = seed[i].variant,
                                  !.step = "clear", !.injected = TRUE, !.err = StoreFailure,
                                  !.overlap = seed[i].overlap]
        /\ seed' = [seed EXCEPT ![i] = IdleSeed]
        /\ UNCHANGED collection
     \/ /\ collection' = deleteMany(collection)
        /\ seed' = [seed EXCEPT ![i].pc = "cleared"]
        /\ UNCHANGED last
  /\ hist' = <<>>

\* Step 2 of an invocation that may overlap another.
SeedFetchRacing(i) ==
  /\ seed[i].pc = "cleared"
  /\ \/ /\ last' = [NoLast EXCEPT !.op = "seed", !.variant = seed[i].variant,
                                  !.step = "fetch", !.injected = TRUE,
                                  !.err = FetchError(seed[i].variant),
                                  !.overlap = seed[i].overlap]
        /\ seed' = [seed EXCEPT ![i] = IdleSeed]
     \/ /\ \E results \in RaceAnswers :
             LET batch == IF seed[i].variant = "excuteSeed"
                            THEN pokemonData(results) ELSE toInsertPokemon(results)
             IN seed' = [seed EXCEPT ![i].pc = "fetched", ![i].results = results,
                           ![i].batch = batch, ![i].before = {}]
        /\ UNCHANGED last
  /\ hist' = <<>>
  /\ UNCHANGED collection

Next ==
  \/ FindOne
  \/ Create
  \/ Update
  \/ Remove
  \/ \E i \in Invocations : SeedClear(i)
  \/ \E i \in Invocations : SeedFetch(i)
  \/ \E i \in Invocations : SeedInsert(i)

Spec == Init /\ [][Next]_vars

NextCrud == FindOne \/ Create \/ Update \/ Remove

SpecCrud == Init /\ [][NextCrud]_vars

NextSeed ==
  \/ Create
  \/ \E i \in Invocations : SeedClear(i)
  \/ \E i \in Invocations : SeedFetch(i)
  \/ \E i \in Invocations : SeedInsert(i)

SpecSeed == Init /\ [][NextSeed]_vars

\* Every operation that writes to the collection, seed invocations overlapping.
NextWrites ==
  \/ Create
  \/ Update
  \/ Remove
  \/ \E i \in Invocations : SeedInvoke(i)
  \/ \E i \in Invocations : SeedClearRacing(i)
  \/ \E i \in Invocations : SeedFetchRacing(i)
  \/ \E i \in Invocations : SeedInsert(i)

SpecWrites == Init /\ [][NextWrites]_vars

\* The classifier on every error it may be handed, with the operations that
\* call it.
InitClassifier ==
  /\ collection = {}
  /\ seed = [i \in Invocations |-> IdleSeed]
  /\ last \in {NoLast} \cup {[NoLast EXCEPT !.op = "raw", !.caught = e] : e \in RawErrors}
  /\ hist = <<>>

NextClassifier == Classify \/ Create \/ Update

SpecClassifier == InitClassifier /\ [][NextClassifier]_vars

\* Seed invocations that may overlap.
NextRace ==
  \/ \E i \in Invocations : SeedInvoke(i)
  \/ \E i \in Invocations : SeedClearRacing(i)
  \/ \E i \in Invocations : SeedFetchRacing(i)
  \/ \E i \in Invocations : SeedInsert(i)

SpecRace == Init /\ [][NextRace]_vars

\* ------------------------------------------------------------ vocabulary
Range(q) == {q[k] : k \in 1..Len(q)}

\* A record matches a term by `no`, by identity or by normalized name.
MatchesByNo(r, term) == ToNumber(term) # NaN /\ r.no = ToNumber(term)

MatchesById(r, term) ==
  /\ Len(term) = ObjectIdLen
  /\ \A k \in 1..Len(term) : LowerChar(term[k]) \in HexChars
  /\ r.id = toLowerCase(term)

MatchesByName(r, term) == r.name = trim(toLowerCase(term))

Matches(r, term) == MatchesByNo(r, term) \/ MatchesById(r, term) \/ MatchesByName(r, term)

\* The domain kind of what an operation threw; "Raw" for a low-level error.
DomainKind(e) ==
  IF e.cls = "InternalServerErrorException" THEN "Unexpected"
  ELSE IF e.cls # "BadRequestException" THEN "Raw"
  ELSE IF e.msg = <<"already exists">> THEN "Conflict"
  ELSE IF e.msg = <<"Error in the excuteSeed method">> THEN "SourceUnavailable"
  ELSE IF e.msg = <<"Unexpected error:">> THEN "ImportFailed"
  ELSE IF e.msg # <<>> /\ e.msg[Len(e.msg)] \in {"not found", "does not exist"} THEN "NotFound"
  ELSE "Raw"

FindOneAnswered == last.op = "findOne" /\ ~last.injected

\* ---------------------------------------------------------------- claims
\* C1: for every stored `no` n, findOne of the decimal string of n returns the
\* record whose `no` is n, also when another record is named by that string.
C1_NumericPrecedence ==
  FindOneAnswered =>
    \A r \in collection : last.term = NumToStr(r.no) => (last.ok /\ last.rec = r)

C1_Witness ==
  /\ FindOneAnswered
  /\ \E r, o \in collection :
       /\ r # o
       /\ last.term = NumToStr(r.no)
       /\ o.name = last.term
       /\ last.rec = r

\* C3: a term that matches no record by `no`, identity or normalized name
\* fails with NotFound (a 400 carrying the term); a returned record always
\* matches the term under one of the three strategies.
C3_NotFound ==
  FindOneAnswered =>
    /\ (\A r \in collection : ~Matches(r, last.term)) =>
         /\ ~last.ok
         /\ last.rec = Null
         /\ DomainKind(last.err) = "NotFound"
         /\ last.err.status = BadRequestStatus
         /\ last.err.value = last.term
    /\ last.ok => (last.rec \in collection /\ Matches(last.rec, last.term))
    /\ last.ok \/ last.err # NoError

C3_Witness ==
  /\ FindOneAnswered
  /\ collection # {}
  /\ \A r \in collection : ~Matches(r, last.term)
  /\ DomainKind(last.err) = "NotFound"
  /\ last.err.value = last.term

\* C4: a well-formed identity that matches no record by `no` is looked up by
\* identity, and the record with that identity is returned if there is one;
\* no identity query is ever issued for a malformed identity.
C4_IdentityLookup ==
  /\ FindOneAnswered =>
       ((/\ Len(last.term) = ObjectIdLen
         /\ \A k \in 1..Len(last.term) : LowerChar(last.term[k]) \in HexChars
         /\ \A r \in collection : ~MatchesByNo(r, last.term))
        => /\ Query("id", last.term) \in Range(last.queries)
           /\ \A r \in collection : MatchesById(r, last.term) => (last.ok /\ last.rec = r))
  /\ last.op \in {"findOne", "update"} =>
       \A q \in Range(last.queries) :
         q.kind = "id" =>
           (Len(q.arg) = ObjectIdLen /\ \A k \in 1..Len(q.arg) : LowerChar(q.arg[k]) \in HexChars)

C4_Witness ==
  /\ FindOneAnswered
  /\ ToNumber(last.term) # NaN
  /\ Query("id", last.term) \in Range(last.queries)
  /\ last.ok
  /\ MatchesById(last.rec, last.term)

\* What the external source means by an entry: the number written in the
\* second-to-last path segment of its URL, and its name.
Expected(results) ==
  [k \in 1..Len(results) |->
     [no   |-> CASE results[k].url = Url1 -> 1 [] results[k].url = Url2 -> 2
                 [] results[k].url = Url12 -> 12,
      name |-> results[k].name]]

CollisionFree(batch) ==
  \A a, b \in 1..Len(batch) :
    a # b => (batch[a].no # batch[b].no /\ batch[a].name # batch[b].name)

SeedInserted == last.op = "seed" /\ last.step = "insert"

\* The numbers that two entries of the batch share.
DupNos(batch) ==
  {batch[a].no : a \in {x \in 1..Len(batch) :
                          \E y \in 1..Len(batch) : x # y /\ batch[x].no = batch[y].no}}

\* No entry numbered n shares its name with an entry of another number.
Isolated(batch, n) ==
  \A a, b \in 1..Len(batch) :
    (batch[a].no = n /\ batch[b].no # n) => batch[a].name # batch[b].name

\* Every entry that collides with no other entry of the batch is stored.
NonConflictingStored ==
  \A a \in 1..Len(last.batch) :
    (\A b \in 1..Len(last.batch) :
       a # b => (last.batch[a].no # last.batch[b].no /\ last.batch[a].name # last.batch[b].name))
    => last.batch[a] \in Fields(collection)

\* A name the name strategy is meant for: trimmed, not a number, not an identity.
PlainName(s) ==
  /\ s # <<>>
  /\ trim(s) = s
  /\ ToNumber(s) = NaN
  /\ Len(s) # ObjectIdLen

\* C2: resolve(s) and resolve(s.upper()) return the record named s, whatever
\* operation wrote it (stated for plain names).
C2_CaseInsensitive ==
  \A r \in collection :
    PlainName(r.name) =>
      /\ findOne(collection, r.name, "none").rec = r
      /\ findOne(collection, toUpperCase(r.name), "none").rec = r

\* C5: a successful reseed from a collision-free source leaves exactly the
\* transformed batch in the collection, whatever it held before.
C5_FullReplace ==
  (SeedInserted /\ last.ok /\ CollisionFree(Expected(last.results))) =>
    /\ Fields(collection) = Range(Expected(last.results))
    /\ Cardinality(collection) = Len(last.results)

C5_Witness ==
  /\ SeedInserted /\ last.ok /\ CollisionFree(Expected(last.results))
  /\ last.stale
  /\ Len(last.results) >= 2
  /\ Fields(collection) = Range(Expected(last.results))

\* C6 as stated: two successful reseeds in a row on the same source answer
\* leave the same record set, collisions in the batch included.
C6_Idempotent ==
  (Len(hist) = 2 /\ hist[1].clean /\ hist[2].clean) => hist[1].recs = hist[2].recs

\* C6 amended: two successful reseeds in a row on the same collision-free
\* source answer leave the same record set.
C6_IdempotentCollisionFree ==
  (Len(hist) = 2 /\ CollisionFree(Expected(hist[1].results))) =>
    (hist[1].recs = hist[2].recs /\ hist[1].recs = Range(Expected(hist[1].results)))

C6_Witness ==
  /\ Len(hist) = 2
  /\ CollisionFree(Expected(hist[1].results))
  /\ Len(hist[1].results) >= 2
  /\ hist[1].recs = hist[2].recs
  /\ SeedInserted /\ last.ok

C8_SourceUnavailable ==
  (last.op = "seed" /\ last.step = "fetch") =>
    /\ ~last.ok
    /\ DomainKind(last.err) = "SourceUnavailable"
    /\ collection = {}

\* C9: a bulk insert with any non-duplicate error fails with ImportFailed;
\* success is reported only when every write error is a duplicate key.
C9_ImportFailed ==
  SeedInserted =>
    /\ (/\ last.caught # NoError
        /\ \/ last.caught.writeErrors = <<>>
           \/ \E e \in Range(last.caught.writeErrors) : e.code # DuplicateKeyCode)
       => (~last.ok /\ DomainKind(last.err) = "ImportFailed")
    /\ last.ok => \A e \in Range(last.caught.writeErrors) : e.code = DuplicateKeyCode

\* C10: whatever fails inside an operation reaches the caller as a domain
\* error, never as a raw low-level error.
C10_NoRawError ==
  (last.op # "" /\ last.step # "running" /\ ~last.ok) => DomainKind(last.err) # "Raw"

\* C11: in every reachable state no two stored records share a `no` and no
\* two share a `name`.
C11_Unique ==
  \A r, o \in collection : r # o => (r.no # o.no /\ r.name # o.name)

C11_Witness ==
  /\ Cardinality(collection) >= 2
  /\ last.op \in {"create", "update", "seed"}
  /\ ~last.injected
  /\ \/ DomainKind(last.err) = "Conflict"
     \/ last.caught.code = DuplicateKeyCode

\* C12: in every reachable state the name of every stored record is lowercase
\* and trimmed, whichever operation wrote it.
C12_NamesNormalized ==
  \A r \in collection : r.name = trim(toLowerCase(r.name))

\* The fields in which the write recorded in `op` (a create, or an update whose
\* term resolves to a record of `coll`) would collide with another record.
Collisions(coll, op) ==
  LET target == IF op.op = "update" THEN findOne(coll, op.term, "none").rec ELSE Null
      name   == toLowerCase(op.dto.name)
  IN IF op.op = "update" /\ target = Null THEN {}
     ELSE {f \in {"no", "name"} :
             \E r \in coll :
               /\ r # target
               /\ IF f = "no" THEN op.dto.no # 0 /\ r.no = op.dto.no
                  ELSE name # <<>> /\ r.name = name}

\* C13: a create or update that would give a record a `no` or `name` held by
\* another record fails with Conflict (a 400) naming the field and the value,
\* and leaves the collection as it was.
C13_Conflict ==
  [][(/\ last'.op \in {"create", "update"}
      /\ ~last'.injected
      /\ Collisions(collection, last') # {})
     => /\ ~last'.ok
        /\ DomainKind(last'.err) = "Conflict"
        /\ last'.err.status = BadRequestStatus
        /\ last'.err.field \in Collisions(collection, last')
        /\ last'.err.value = (IF last'.err.field = "no" THEN NumToStr(last'.dto.no)
                               ELSE toLowerCase(last'.dto.name))
        /\ collection' = collection]_vars

C13_Witness ==
  /\ last.op = "update"
  /\ ~last.injected
  /\ Collisions(collection, last) = {"no", "name"}
  /\ DomainKind(last.err) = "Conflict"
  /\ last.err.field = "name"

\* An entry of the batch is present when it is stored, or when a stored record
\* of the batch holds its `no` or its `name` (the entry was a duplicate).
BatchPresent(coll, batch) ==
  /\ Fields(coll) \subseteq Range(batch)
  /\ \A k \in 1..Len(batch) :
       \E r \in coll : r.no = batch[k].no \/ r.name = batch[k].name

\* C14, the race: an invocation has returned success and the collection lacks
\* records of its batch, cleared by the invocation that overlapped it.
C14_Race ==
  /\ SeedInserted /\ last.ok /\ last.overlap /\ ~last.injected
  /\ last.batch # <<>>
  /\ collection = {}
  /\ \E i \in Invocations : seed[i].pc = "cleared" /\ seed[i].overlap

C14_RaceUnreachable == ~C14_Race

\* C14, the reseed running alone: whenever it returns success its whole
\* deduplicated batch is in the collection.
C14_AloneComplete ==
  (SeedInserted /\ last.ok /\ ~last.overlap) => BatchPresent(collection, last.batch)

\* C15: _errorHandler applies its rules in order: a duplicate-key code gives
\* Conflict with the error's field and value; otherwise a 400 is passed on as a
\* client error annotated with the context; otherwise the result is Unexpected
\* with context and message. It always throws, and an update whose term
\* resolves to no record surfaces NotFound as a client error, classified twice.
C15_Classifier ==
  [][LET e == last'.caught
         t == last'.err
     IN /\ last'.op \in {"classified", "reclassified"} =>
             /\ t.cls \in {"BadRequestException", "InternalServerErrorException"}
             /\ IF e.code = DuplicateKeyCode
                  THEN /\ DomainKind(t) = "Conflict"
                       /\ t.status = BadRequestStatus
                       /\ t.field = e.field /\ t.value = e.value
                ELSE IF e.status = BadRequestStatus
                  THEN /\ t.cls = "BadRequestException"
                       /\ t.status = BadRequestStatus
                       /\ t.msg = <<"Error from", last'.fn>> \o e.msg
                       /\ t.value = e.value
                ELSE /\ DomainKind(t) = "Unexpected"
                     /\ t.status = InternalErrorStatus
                     /\ t.msg = <<"Error from", last'.fn>> \o e.msg
        /\ (last'.op = "update" /\ ~last'.injected
              /\ findOne(collection, last'.term, "none").rec = Null) =>
             /\ ~last'.ok
             /\ DomainKind(t) = "NotFound"
             /\ t.status = BadRequestStatus
             /\ t.msg = <<"Error from", "update", "Error from", "findOne", "not found">>
             /\ t.value = last'.term
             /\ collection' = collection
        /\ (last'.op \in {"create", "update"} /\ ~last'.ok) =>
             t.cls \in {"BadRequestException", "InternalServerErrorException"}]_vars

C15_Witness ==
  /\ last.op = "update" /\ ~last.injected
  /\ collection # {}
  /\ findOne(collection, last.term, "none").rec = Null
  /\ DomainKind(last.err) = "NotFound"
  /\ Len(last.err.msg) = 5

\* What the seed method `variant` makes of the source's answer.
BatchOf(variant, results) ==
  IF variant = "excuteSeed" THEN pokemonData(results) ELSE toInsertPokemon(results)

\* C16: excuteSeed and excuteSeedWithAdapter are equivalent: whichever method
\* ran, the other one, given the same behaviour of the source and the store,
\* ends at the same step with the same kind of outcome and the same batch
\* handed to the store.
C16_SeedEquivalent ==
  (last.op = "seed" /\ last.step # "running") =>
    \A v \in Variants :
      /\ last.step = "clear" => last.err = StoreFailure
      /\ last.step = "fetch" =>
           /\ FetchError(v).cls = last.err.cls
           /\ DomainKind(FetchError(v)) = DomainKind(last.err)
      /\ last.step = "insert" =>
           /\ BatchOf(v, last.results) = last.batch
           /\ last.err = (IF last.caught = NoError THEN NoError ELSE seedCatch(last.caught))
           /\ last.ok = (last.err = NoError)

====
